---------------------------- MODULE Spec2Model ----------------------------
(***************************************************************************)
(* A model of the two canvas animations of js/main.js: the ParticleNetwork *)
(* ("neural network" hero) and the DotGrid background, together with the   *)
(* host events that drive them (frame callbacks, resize, pointer,          *)
(* page-visibility, the intro splash).                                     *)
(*                                                                         *)
(* Numbers.  JavaScript numbers are modelled in fixed point:               *)
(*   - fractions (burstT, eased, normDist, alpha, boost, Math.random())    *)
(*     are integers in units of 1/ONE;                                     *)
(*   - canvas coordinates and lengths are integers in units of 1/PX pixel; *)
(*   - angles are integers in milliradians;                                *)
(*   - times are integers in milliseconds.                                 *)
(* A nullable field (mouse.x, startTime, ox, animationId) is the empty     *)
(* sequence when null and a one-element sequence <<v>> otherwise.          *)
(***************************************************************************)
EXTENDS Integers, Sequences, FiniteSets, TLC

\* ------------------------------------------------------------------------
\* Number representation
\* ------------------------------------------------------------------------
ONE == 10000
PX == 100

Null == << >>
Some(v) == << v >>
Val(n) == n[1]

Abs(a) == IF a < 0 THEN -a ELSE a
Min(a, b) == IF a < b THEN a ELSE b
Max(a, b) == IF a > b THEN a ELSE b

\* Math.round on a quotient n/d (d > 0): nearest integer, halves upwards.
Round(n, d) == (2 * n + d) \div (2 * d)

\* Math.sqrt on a non-negative integer: the floor of the square root.
RECURSIVE SqrtSearch(_, _, _)
SqrtSearch(n, lo, hi) ==
    IF lo >= hi THEN lo
    ELSE LET mid == (lo + hi + 1) \div 2
         IN IF mid * mid <= n THEN SqrtSearch(n, mid, hi)
                               ELSE SqrtSearch(n, lo, mid - 1)
Sqrt(n) == SqrtSearch(n, 0, 46340)

\* Math.sqrt(dx * dx + dy * dy).  Offsets too large to square in 32 bits are
\* first scaled down by 64; the result then carries a resolution of 64 units.
Hypot(dx, dy) ==
    IF Abs(dx) > 30000 \/ Abs(dy) > 30000
    THEN 64 * Sqrt((dx \div 64) * (dx \div 64) + (dy \div 64) * (dy \div 64))
    ELSE Sqrt(dx * dx + dy * dy)

\* Angles in milliradians.
PiMrad == 3142
HalfPiMrad == 1571
TwoPiMrad == 6283

\* cos on [0, pi/2], by its Taylor polynomial up to x^8.
CosQuadrant(x) ==
    LET x2 == (x * x) \div 100
        x4 == (x2 * x2) \div ONE
        x6 == (x4 * x2) \div ONE
        x8 == ((x6 \div 10) * x2) \div (ONE \div 10)
    IN ONE - (x2 \div 2) + (x4 \div 24) - (x6 \div 720) + (x8 \div 40320)

\* Math.cos / Math.sin of an angle in milliradians, in units of 1/ONE.
Cos(a) ==
    LET x == a % TwoPiMrad
    IN IF x <= HalfPiMrad THEN CosQuadrant(x)
       ELSE IF x <= PiMrad THEN -CosQuadrant(PiMrad - x)
       ELSE IF x <= PiMrad + HalfPiMrad THEN -CosQuadrant(x - PiMrad)
       ELSE CosQuadrant(TwoPiMrad - x)
Sin(a) == Cos(a + TwoPiMrad - HalfPiMrad)

\* Math.pow(2, -u) for u >= 0 in units of 1/ONE: 2^-floor(u) times
\* exp(-frac(u) * ln 2), the latter by its Taylor polynomial up to z^5.
RECURSIVE Halve(_, _)
Halve(v, n) == IF n = 0 THEN v ELSE Halve(v \div 2, n - 1)
Pow2Neg(u) ==
    LET n  == u \div ONE
        f  == u % ONE
        z  == (f * 6931) \div ONE
        z2 == (z * z) \div ONE
        z3 == (z2 * z) \div ONE
        z4 == (z3 * z) \div ONE
        z5 == (z4 * z) \div ONE
        e  == ONE - z + (z2 \div 2) - (z3 \div 6) + (z4 \div 24) - (z5 \div 120)
    IN Halve(e, n)


\* ------------------------------------------------------------------------
\* Bounds of the model and the inputs the environment draws from
\* ------------------------------------------------------------------------
\* Number of particles created (config.particleCount is 90 in the program).
particleCount == 2
\* Frame timestamps handed to ParticleNetwork.animate do not exceed MaxTime.
MaxTime == 3300
\* visibilitychange stops re-requesting once this many requests are pending.
MaxPending == 2

\* A filter button is clicked only while fewer than MaxCallbacks timers and
\* fewer than MaxCallbacks frame callbacks are pending for every card.
MaxCallbacks == 2
\* DotGrid pointer events (mousemove, mouseleave) that change the target in
\* one behaviour; an event that leaves the target as it is changes nothing.
MaxPointerEvents == 2

\* Time elapsing from the page load to the first ParticleNetwork frame, and
\* from one frame to the next (ms).
TickSteps == {550, 1650}
\* window.innerWidth x window.innerHeight (px).
Viewports == { <<240, 160>>, <<320, 200>> }
\* window.innerWidth x window.innerHeight the dot grid is run with (px).
DGViewports == { <<96, 64>> }
\* The data-category attributes of the project cards and the data-filter
\* attributes of the filter buttons, as sequences of characters.
CardCategories == << << "m", "l" >>, << "w", "e", "b" >> >>
FilterButtons == { << "a", "l", "l" >>, << "m", "l" >>, << "w", "e", "b" >> }
\* e.clientX, e.clientY of a mousemove (px).
PointerPositions == { <<40, 60>> }
\* The six Math.random() results consumed for one particle, in units of
\* 1/ONE: a particle far from the center with the slowest, smallest drift,
\* and one near the center with the fastest, widest drift.
RandomDraws ==
    << [angle |-> 0,    radius |-> 9999, size |-> 5000,
        driftAngle |-> 0,    driftSpeed |-> 0,    driftRadius |-> 0],
       [angle |-> 2500, radius |-> 0,    size |-> 0,
        driftAngle |-> 2500, driftSpeed |-> 9999, driftRadius |-> 9999] >>
\* The Math.random() results consumed by one createParticles call: the two
\* kinds of particle alternate, starting with either.
DrawSequences ==
    { [i \in 1..particleCount |-> RandomDraws[((i + k) % 2) + 1]] : k \in {0, 1} }

\* ------------------------------------------------------------------------
\* State
\* ------------------------------------------------------------------------
VARIABLES
    now,          \* host clock: the timestamp of the latest frame (0 at page load)
    hidden,       \* document.hidden
    window,       \* <<window.innerWidth, window.innerHeight>>
    splash,       \* intro splash: "none", "waiting", "fading" or "gone"
                  \* ("shown" before the DOMContentLoaded handler has run)
    doc,          \* the document the DOMContentLoaded handler finds, and
                  \* whether the handler has run
    fault,        \* history: the fields whose code has raised an uncaught TypeError
    projectFilters,
                  \* the ProjectFilters object: the style of each project card,
                  \* the callbacks pending for it and the active filter button
    pn,           \* the ParticleNetwork object (fields named as in the source)
    pnFrames,     \* ids of the frame requests pending for ParticleNetwork.animate
    pnCtx,        \* what is painted on the particle canvas
    pnTick,       \* history: what the last ParticleNetwork.animate call did
    pnDestroyed,  \* history: ParticleNetwork.destroy has been called
    startBursts,  \* history: number of calls of ParticleNetwork.startBurst
    pnResizedInBurst,
                  \* history: a resize ran while the field was Bursting, and
                  \* startBurst has not been called since
    dg,           \* the DotGrid object (fields named as in the source)
    dgFrames,     \* ids of the frame requests pending for DotGrid.animate
    dgCtx,        \* what is painted on the dot-grid canvas
    dgDestroyed,  \* history: DotGrid.destroy has been called
    dgPointerEvents
                  \* history: number of pointer events that changed the DotGrid's
                  \* target

hostVars == << now, hidden, window, splash, doc, fault, projectFilters >>
pnVars == << pn, pnFrames, pnCtx, pnTick, pnDestroyed, pnResizedInBurst,
            startBursts >>
dgVars == << dg, dgFrames, dgCtx, dgDestroyed, dgPointerEvents >>

\* ------------------------------------------------------------------------
\* ParticleNetwork: constants of the constructor
\* ------------------------------------------------------------------------
burstDuration == 2200
mouseRadius == 180 * PX
connectionDistance == 160 * PX
coreColor == << 122, 176, 179 >>
edgeColor == << 29, 84, 109 >>

BlankCtx == [edges |-> << >>, nodes |-> << >>]

\* JavaScript truthiness of a nullable number: null and 0 are falsy.
Truthy(n) == n # Null /\ Val(n) # 0

\* requestAnimationFrame: a handle not among the pending ones.
NewHandle(frames) == CHOOSE id \in 1..(Cardinality(frames) + 1) : id \notin frames

\* ParticleNetwork.resize
PNResizeCanvas(vp) == [width |-> vp[1], height |-> vp[2]]

CenterX(canvas) == (canvas.width * PX) \div 2
CenterY(canvas) == (canvas.height * PX) \div 2

\* One iteration of the loop of ParticleNetwork.createParticles; d holds the
\* Math.random() results in the order the loop consumes them.
NewParticle(canvas, d) ==
    LET cx    == CenterX(canvas)
        cy    == CenterY(canvas)
        maxR  == (Max(canvas.width, canvas.height) * PX * 56) \div 100
        angle == (d.angle * TwoPiMrad) \div ONE
        r     == (maxR * (1500 + (d.radius * 85) \div 100)) \div ONE
    IN [ x |-> cx, y |-> cy,
         tx |-> cx + (Cos(angle) * r) \div ONE,
         ty |-> cy + (Sin(angle) * r) \div ONE,
         size |-> (120 * PX) \div 100 + (d.size * ((180 * PX) \div 100)) \div ONE,
         normDist |-> (r * ONE) \div maxR,
         driftAngle |-> (d.driftAngle * TwoPiMrad) \div ONE,
         driftSpeed |-> ((4000 + (d.driftSpeed * 6) \div 10) * 18) \div 100,
         driftRadius |-> 6 * PX + (d.driftRadius * 18 * PX) \div ONE,
         ox |-> Null, oy |-> Null ]

\* createParticles with the loop running one iteration too many (<= for <).
createParticlesOneMore(canvas, draws) ==
    [i \in 1..(particleCount + 1) |->
        NewParticle(canvas, draws[((i - 1) % particleCount) + 1])]

\* ParticleNetwork.createParticles
createParticles(canvas, draws) ==
    [i \in 1..particleCount |-> NewParticle(canvas, draws[i])]

\* ParticleNetwork.easeOutExpo
easeOutExpo(t) == IF t = ONE THEN ONE ELSE ONE - Pow2Neg(10 * t)

\* LocalT with the stagger delay added to the progress instead of subtracted.
LocalTAddsDelay(p, burstT) ==
    LET delay == (p.normDist * 25) \div 100
    IN Max(0, ((burstT + delay) * ONE) \div (ONE - delay))

\* LocalT with the magnitude taken of a negative progress, not the clamp at 0.
LocalTAbs(p, burstT) ==
    LET delay == (p.normDist * 25) \div 100
    IN Abs(((burstT - delay) * ONE) \div (ONE - delay))

\* The staggered, eased local progress of a particle (update, lines 127-129).
LocalT(p, burstT) ==
    LET delay == (p.normDist * 25) \div 100
    IN Max(0, ((burstT - delay) * ONE) \div (ONE - delay))
Eased(p, burstT) == easeOutExpo(Min(LocalT(p, burstT), ONE))

\* update, the branch of a particle while the burst is running.
BurstStep(p, burstT, cx, cy) ==
    LET eased == Eased(p, burstT)
        settle == eased >= ONE /\ p.ox = Null
    IN [p EXCEPT !.x = cx + ((p.tx - cx) * eased) \div ONE,
                 !.y = cy + ((p.ty - cy) * eased) \div ONE,
                 !.ox = IF settle THEN Some(p.tx) ELSE p.ox,
                 !.oy = IF settle THEN Some(p.ty) ELSE p.oy]

\* Repulsion without the null check: an absent pointer (null) enters the
\* arithmetic as 0, as JavaScript coerces it.
RepulsionNullAsZero(x, y, mouse) ==
    LET mx   == IF mouse.x = Null THEN 0 ELSE Val(mouse.x)
        my   == IF mouse.y = Null THEN 0 ELSE Val(mouse.y)
        dx   == x - mx
        dy   == y - my
        dist == Hypot(dx, dy)
    IN IF dist < mouseRadius
       THEN LET force == ((mouseRadius - dist) * ONE) \div mouseRadius
            IN << (((dx * force) \div ONE) * 25) \div 1000,
                  (((dy * force) \div ONE) * 25) \div 1000 >>
       ELSE << 0, 0 >>

\* update, the soft mouse repulsion: the offset added to (x, y).
Repulsion(x, y, mouse) ==
    IF mouse.x # Null
    THEN LET dx   == x - Val(mouse.x)
             dy   == y - Val(mouse.y)
             dist == Hypot(dx, dy)
         IN IF dist < mouseRadius
            THEN LET force == ((mouseRadius - dist) * ONE) \div mouseRadius
                 IN << (((dx * force) \div ONE) * 25) \div 1000,
                       (((dy * force) \div ONE) * 25) \div 1000 >>
            ELSE << 0, 0 >>
    ELSE << 0, 0 >>

\* SettledStep with the drift offset not scaled by driftSpeed.
SettledStepNoSpeed(p, mouse) ==
    LET ox == IF p.ox = Null THEN Some(p.tx) ELSE p.ox
        oy == IF p.ox = Null THEN Some(p.ty) ELSE p.oy
        a  == p.driftAngle + 4
        fx == Val(ox) + (Cos(a) * p.driftRadius) \div ONE
        fy == Val(oy) + (Sin(a) * p.driftRadius) \div ONE
        rep == Repulsion(fx, fy, mouse)
    IN [p EXCEPT !.ox = ox, !.oy = oy, !.driftAngle = a,
                 !.x = fx + rep[1], !.y = fy + rep[2]]

\* SettledStep taking the origin from the current position on every frame,
\* not once from the target.
SettledStepOriginFromPosition(p, mouse) ==
    LET ox == Some(p.x)
        oy == Some(p.y)
        a  == p.driftAngle + 4
        fx == Val(ox) + (((Cos(a) * p.driftRadius) \div ONE) * p.driftSpeed) \div ONE
        fy == Val(oy) + (((Sin(a) * p.driftRadius) \div ONE) * p.driftSpeed) \div ONE
        rep == Repulsion(fx, fy, mouse)
    IN [p EXCEPT !.ox = ox, !.oy = oy, !.driftAngle = a,
                 !.x = fx + rep[1], !.y = fy + rep[2]]

\* update, the branch of a particle once the burst is done.
SettledStep(p, mouse) ==
    LET ox == IF p.ox = Null THEN Some(p.tx) ELSE p.ox
        oy == IF p.ox = Null THEN Some(p.ty) ELSE p.oy
        a  == p.driftAngle + 4
        fx == Val(ox) + (((Cos(a) * p.driftRadius) \div ONE) * p.driftSpeed) \div ONE
        fy == Val(oy) + (((Sin(a) * p.driftRadius) \div ONE) * p.driftSpeed) \div ONE
        rep == Repulsion(fx, fy, mouse)
    IN [p EXCEPT !.ox = ox, !.oy = oy, !.driftAngle = a,
                 !.x = fx + rep[1], !.y = fy + rep[2]]

\* update: the burst clock after line 116.
StartTimeAt(startTime, timestamp) ==
    IF ~Truthy(startTime) THEN Some(timestamp) ELSE startTime

\* update: the value it returns (global burst progress).
BurstT(startTime, timestamp) ==
    LET elapsed == timestamp - Val(StartTimeAt(startTime, timestamp))
    IN Min((elapsed * ONE) \div burstDuration, ONE)

\* update with the mouse repulsion applied after either branch.
updateRepelsAlways(o, timestamp) ==
    LET burstT == BurstT(o.startTime, timestamp)
        cx == CenterX(o.canvas)
        cy == CenterY(o.canvas)
        Repelled(q) == LET rep == Repulsion(q.x, q.y, o.mouse)
                       IN [q EXCEPT !.x = q.x + rep[1], !.y = q.y + rep[2]]
    IN [o EXCEPT !.startTime = StartTimeAt(o.startTime, timestamp),
                 !.particles = [i \in DOMAIN o.particles |->
                                  IF burstT < ONE
                                  THEN Repelled(BurstStep(o.particles[i], burstT, cx, cy))
                                  ELSE SettledStep(o.particles[i], o.mouse)]]

\* ParticleNetwork.update: the object after the call.
update(o, timestamp) ==
    LET burstT == BurstT(o.startTime, timestamp)
        cx == CenterX(o.canvas)
        cy == CenterY(o.canvas)
    IN [o EXCEPT !.startTime = StartTimeAt(o.startTime, timestamp),
                 !.particles = [i \in DOMAIN o.particles |->
                                  IF burstT < ONE
                                  THEN BurstStep(o.particles[i], burstT, cx, cy)
                                  ELSE SettledStep(o.particles[i], o.mouse)]]


\* draw: the helper blendToCenter.
blendToCenter(norm) ==
    LET t == Min(norm, ONE)
    IN [c \in 1..3 |-> Round(coreColor[c] * ONE + (edgeColor[c] - coreColor[c]) * t, ONE)]

\* LineAlpha fading the lines in over the whole burst.
LineAlphaFromStart(burstT) == Min(ONE, Max(0, burstT))

\* draw: the fade-in of the lines (line 168).
LineAlpha(burstT) == Min(ONE, Max(0, ((burstT - 4000) * ONE) \div 6000))

\* draw: the mouse highlight of the edge between pi and pj (lines 187-195).
EdgeBoost(pi, pj, mouse) ==
    IF mouse.x # Null
    THEN LET midX  == (pi.x + pj.x) \div 2 - Val(mouse.x)
             midY  == (pi.y + pj.y) \div 2 - Val(mouse.y)
             mdist == Hypot(midX, midY)
         IN IF mdist < mouseRadius
            THEN ONE + ((ONE - (mdist * ONE) \div mouseRadius) * 25) \div 10
            ELSE ONE
    ELSE ONE

\* Connected with the threshold included (<= for <).
ConnectedInclusive(pi, pj) == Hypot(pi.x - pj.x, pi.y - pj.y) <= connectionDistance

\* draw: whether the pair (pi, pj) gets an edge (line 180).
Connected(pi, pj) == Hypot(pi.x - pj.x, pi.y - pj.y) < connectionDistance

\* Edge without the ceiling of 0.7 on the alpha.
EdgeUncapped(parts, mouse, lineAlpha, i, j) ==
    LET pi == parts[i]
        pj == parts[j]
        dist == Hypot(pi.x - pj.x, pi.y - pj.y)
        proximity == ONE - (dist * ONE) \div connectionDistance
        avgNorm == (pi.normDist + pj.normDist) \div 2
        baseOpacity == 600 + (proximity * 28) \div 100
        alpha == (baseOpacity * lineAlpha) \div ONE
        boost == EdgeBoost(pi, pj, mouse)
    IN [ i |-> i, j |-> j,
         from |-> << pi.x, pi.y >>, to |-> << pj.x, pj.y >>,
         color |-> blendToCenter(avgNorm),
         boost |-> boost,
         alpha |-> (alpha * boost) \div ONE,
         lineWidth |-> 8000 + proximity \div 2 ]

\* draw: the edge stroked for the pair (i, j) (lines 181-203).
Edge(parts, mouse, lineAlpha, i, j) ==
    LET pi == parts[i]
        pj == parts[j]
        dist == Hypot(pi.x - pj.x, pi.y - pj.y)
        proximity == ONE - (dist * ONE) \div connectionDistance
        avgNorm == (pi.normDist + pj.normDist) \div 2
        baseOpacity == 600 + (proximity * 28) \div 100
        alpha == (baseOpacity * lineAlpha) \div ONE
        boost == EdgeBoost(pi, pj, mouse)
    IN [ i |-> i, j |-> j,
         from |-> << pi.x, pi.y >>, to |-> << pj.x, pj.y >>,
         color |-> blendToCenter(avgNorm),
         boost |-> boost,
         alpha |-> Min((alpha * boost) \div ONE, 7000),
         lineWidth |-> 8000 + proximity \div 2 ]

\* draw: the two nested loops over the pairs i < j (lines 172-206), from
\* the pair (i, j) onwards; the edges are listed in the order stroked.
RECURSIVE EdgesFrom(_, _, _, _, _)
EdgesFrom(parts, mouse, lineAlpha, i, j) ==
    IF i > Len(parts) THEN << >>
    ELSE IF j > Len(parts) THEN EdgesFrom(parts, mouse, lineAlpha, i + 1, i + 2)
    ELSE (IF Connected(parts[i], parts[j])
          THEN << Edge(parts, mouse, lineAlpha, i, j) >>
          ELSE << >>)
         \o EdgesFrom(parts, mouse, lineAlpha, i, j + 1)

\* draw: the connections painted (lines 171-207).
DrawEdges(parts, mouse, burstT) ==
    IF LineAlpha(burstT) > 0
    THEN EdgesFrom(parts, mouse, LineAlpha(burstT), 1, 2)
    ELSE << >>

\* draw: the mouse glow of a node (lines 215-221).
GlowBoost(p, mouse) ==
    IF mouse.x # Null
    THEN LET dist == Hypot(p.x - Val(mouse.x), p.y - Val(mouse.y))
         IN IF dist < mouseRadius
            THEN ONE + ((ONE - (dist * ONE) \div mouseRadius) * 18) \div 10
            ELSE ONE
    ELSE ONE

\* draw: the node painted for a particle (lines 210-227).
Node(p, mouse, burstT) ==
    LET nodeAlpha == ((5500 + ((ONE - p.normDist) * 45) \div 100)
                        * Max(LineAlpha(burstT), (burstT * 15) \div 10)) \div ONE
        glowBoost == GlowBoost(p, mouse)
    IN [ x |-> p.x, y |-> p.y,
         radius |-> (p.size * glowBoost) \div ONE,
         glowBoost |-> glowBoost,
         color |-> blendToCenter(p.normDist),
         alpha |-> Min(nodeAlpha, ONE) ]

\* ParticleNetwork.draw: the canvas after the call (clearRect, then the
\* connections, then the nodes).
draw(o, burstT) ==
    [ edges |-> DrawEdges(o.particles, o.mouse, burstT),
      nodes |-> [i \in DOMAIN o.particles |-> Node(o.particles[i], o.mouse, burstT)] ]

\* ParticleNetwork.startBurst: the object after the call.
startBurst(o) ==
    [o EXCEPT !.burstReady = TRUE,
              !.startTime = Null,
              !.particles = [i \in DOMAIN o.particles |->
                               [o.particles[i] EXCEPT !.x = CenterX(o.canvas),
                                                      !.y = CenterY(o.canvas),
                                                      !.ox = Null, !.oy = Null]]]

\* The ParticleNetwork constructor followed by init(): the object, with one
\* frame requested (handle 1).  The field ctx tells whether
\* canvas.getContext('2d') returned a context (TRUE) or null (FALSE).
NewParticleNetwork(vp, draws) ==
    [ canvas |-> PNResizeCanvas(vp),
      ctx |-> TRUE,
      particles |-> createParticles(PNResizeCanvas(vp), draws),
      mouse |-> [x |-> Null, y |-> Null],
      animationId |-> Some(1),
      isVisible |-> TRUE,
      startTime |-> Null,
      burstReady |-> FALSE ]

NoTick == [kind |-> "none", burstT |-> 0]

\* ------------------------------------------------------------------------
\* DotGrid: constants of the constructor, and its pure parts
\* ------------------------------------------------------------------------
spacing == 32
dotRadius == (120 * PX) \div 100
revealRadius == 200 * PX
baseOpacity == 600
peakOpacity == 5500
baseColor == << 95, 149, 152 >>
glowColor == << 122, 176, 179 >>
lerpSpeed == 1000
\* The off-canvas coordinate of an absent pointer (-9999 px).
OffCanvas == (0 - 9999) * PX

\* Math.ceil(a / b) for a >= 0, b > 0.
Ceil(a, b) == (a + b - 1) \div b

\* DotGrid.resize
DGResizeCanvas(vp) == [width |-> vp[1], height |-> vp[2]]

\* Dot without the clamp of the proximity at 0.
DotUnclamped(row, col, mouse) ==
    LET x == col * spacing * PX
        y == row * spacing * PX
        dist == Hypot(x - mouse.x, y - mouse.y)
        proximity == ONE - (Min(dist, 2 * revealRadius) * ONE) \div revealRadius
        eased == (((proximity * proximity) \div ONE) * (3 * ONE - 2 * proximity)) \div ONE
    IN [ x |-> x, y |-> y,
         opacity |-> baseOpacity + ((peakOpacity - baseOpacity) * eased) \div ONE,
         color |-> [c \in 1..3 |->
                      Round(baseColor[c] * ONE + (glowColor[c] - baseColor[c]) * eased, ONE)],
         radius |-> dotRadius + (eased * ((80 * PX) \div 100)) \div ONE ]

\* draw: the dot painted at (row, col) (lines 338-356).
Dot(row, col, mouse) ==
    LET x == col * spacing * PX
        y == row * spacing * PX
        dist == Hypot(x - mouse.x, y - mouse.y)
        proximity == Max(0, ONE - (Min(dist, 2 * revealRadius) * ONE) \div revealRadius)
        eased == (((proximity * proximity) \div ONE) * (3 * ONE - 2 * proximity)) \div ONE
    IN [ x |-> x, y |-> y,
         opacity |-> baseOpacity + ((peakOpacity - baseOpacity) * eased) \div ONE,
         color |-> [c \in 1..3 |->
                      Round(baseColor[c] * ONE + (glowColor[c] - baseColor[c]) * eased, ONE)],
         radius |-> dotRadius + (eased * ((80 * PX) \div 100)) \div ONE ]

\* DotGrid.draw: the canvas after the call.
dgDraw(o) ==
    LET cols == Ceil(o.canvas.width, spacing) + 1
        rows == Ceil(o.canvas.height, spacing) + 1
    IN [rc \in (0..(rows - 1)) \X (0..(cols - 1)) |-> Dot(rc[1], rc[2], o.mouse)]

\* Lerp following a pointer on the page only: the smoothed pointer stays
\* where it is while the target is the off-canvas coordinate.
LerpOnPageOnly(mouse, target) ==
    IF target = [x |-> OffCanvas, y |-> OffCanvas]
    THEN mouse
    ELSE [ x |-> mouse.x + ((target.x - mouse.x) * lerpSpeed) \div ONE,
           y |-> mouse.y + ((target.y - mouse.y) * lerpSpeed) \div ONE ]

\* animate: the lerp of the smoothed pointer toward the target (lines 365-366).
Lerp(mouse, target) ==
    [ x |-> mouse.x + ((target.x - mouse.x) * lerpSpeed) \div ONE,
      y |-> mouse.y + ((target.y - mouse.y) * lerpSpeed) \div ONE ]

\* The DotGrid constructor up to the call of init(), and init()'s resize.
NewDotGrid(vp, docHidden) ==
    [ canvas |-> DGResizeCanvas(vp),
      ctx |-> TRUE,
      mouse |-> [x |-> OffCanvas, y |-> OffCanvas],
      target |-> [x |-> OffCanvas, y |-> OffCanvas],
      animationId |-> Null,
      isVisible |-> ~docHidden ]

\* ------------------------------------------------------------------------
\* ParticleNetwork: the handlers
\* ------------------------------------------------------------------------
\* The document after the DOMContentLoaded handler has run, on a page that
\* does not request reduced motion: which canvases it has, and whether it
\* had an intro splash (the handler leaves a splash it found waiting).
LoadedDoc(particleCanvas, dotGridCanvas) ==
    [ loaded |-> TRUE, particleCanvas |-> particleCanvas,
      splash |-> splash # "none", reducedMotion |-> FALSE,
      dotGridCanvas |-> dotGridCanvas ]

\* The field has been triggered and its burst is not done: no particle has
\* its origin yet (update sets every origin on the first done frame).
Bursting == pn.burstReady /\ \A i \in DOMAIN pn.particles : pn.particles[i].ox = Null

\* The state after the DOMContentLoaded handler: the field is constructed;
\* with a splash (and no reduced motion) the burst waits for the splash,
\* otherwise startBurst has been called at once.
PNInit ==
    /\ splash \in {"none", "waiting"}
    /\ \E draws \in DrawSequences :
          pn = IF splash = "none"
               THEN startBurst(NewParticleNetwork(window, draws))
               ELSE NewParticleNetwork(window, draws)
    /\ pnFrames = {1}
    /\ pnCtx = BlankCtx
    /\ pnTick = NoTick
    /\ pnDestroyed = FALSE
    /\ pnResizedInBurst = FALSE
    /\ startBursts = IF splash = "none" THEN 1 ELSE 0

\* AnimateVisible without the burstReady check: every visible frame updates
\* and draws.
AnimateVisibleNoReadyCheck(id, ts) ==
    LET next == NewHandle(pnFrames \ {id})
        o == update(pn, ts)
        burstT == BurstT(pn.startTime, ts)
    IN /\ pn' = [o EXCEPT !.animationId = Some(next)]
       /\ pnFrames' = (pnFrames \ {id}) \cup {next}
       /\ pnCtx' = draw(o, burstT)
       /\ pnTick' = [kind |-> "active", burstT |-> burstT]
       /\ fault' = fault

\* The body of ParticleNetwork.animate after the isVisible check, as the
\* frame callback with handle id at timestamp ts.  With a null context the
\* first statement of draw (ctx.clearRect) raises a TypeError: update has
\* run, nothing is drawn and no frame is requested.
AnimateVisible(id, ts) ==
    LET next == NewHandle(pnFrames \ {id})
    IN IF ~pn.burstReady
       THEN /\ pn' = [pn EXCEPT !.animationId = Some(next)]
            /\ pnFrames' = (pnFrames \ {id}) \cup {next}
            /\ pnCtx' = pnCtx
            /\ pnTick' = [kind |-> "idle", burstT |-> 0]
            /\ fault' = fault
       ELSE LET o == update(pn, ts)
                burstT == BurstT(pn.startTime, ts)
            IN IF pn.ctx
               THEN /\ pn' = [o EXCEPT !.animationId = Some(next)]
                    /\ pnFrames' = (pnFrames \ {id}) \cup {next}
                    /\ pnCtx' = draw(o, burstT)
                    /\ pnTick' = [kind |-> "active", burstT |-> burstT]
                    /\ fault' = fault
               ELSE /\ pn' = o
                    /\ pnFrames' = pnFrames \ {id}
                    /\ pnCtx' = pnCtx
                    /\ pnTick' = [kind |-> "fault", burstT |-> burstT]
                    /\ fault' = fault \cup {"ParticleNetwork"}

\* PNAnimate without the isVisible check.
PNAnimateIgnoresVisibility(id, dt) ==
    /\ id \in pnFrames
    /\ now + dt <= MaxTime
    /\ now' = now + dt
    /\ AnimateVisible(id, now + dt)
    /\ UNCHANGED << hidden, window, splash, doc, projectFilters, pnDestroyed, pnResizedInBurst, startBursts, dgVars >>

\* ParticleNetwork.animate, run as the frame callback with handle id, in a
\* frame that comes dt after the latest one.
PNAnimate(id, dt) ==
    /\ id \in pnFrames
    /\ now + dt <= MaxTime
    /\ now' = now + dt
    /\ IF ~pn.isVisible
       THEN /\ pnFrames' = pnFrames \ {id}
            /\ pnTick' = [kind |-> "hidden", burstT |-> 0]
            /\ UNCHANGED << pn, pnCtx, fault >>
       ELSE AnimateVisible(id, now + dt)
    /\ UNCHANGED << hidden, window, splash, doc, projectFilters, pnDestroyed, pnResizedInBurst, startBursts, dgVars >>

\* PNResize keeping the particles it has (no createParticles).
PNResizeKeepsParticles(vp, draws) ==
    /\ window' = vp
    /\ pn' = [pn EXCEPT !.canvas = PNResizeCanvas(vp),
                        !.startTime = Null]
    /\ pnCtx' = BlankCtx
    /\ pnResizedInBurst' = (pnResizedInBurst \/ Bursting)
    /\ UNCHANGED << now, hidden, splash, doc, projectFilters, fault, pnFrames, pnTick, pnDestroyed,
                    startBursts, dgVars >>

\* PNResize without the reset of the burst clock.
PNResizeKeepsClock(vp, draws) ==
    /\ window' = vp
    /\ pn' = [pn EXCEPT !.canvas = PNResizeCanvas(vp),
                        !.particles = createParticles(PNResizeCanvas(vp), draws)]
    /\ pnCtx' = BlankCtx
    /\ pnResizedInBurst' = (pnResizedInBurst \/ Bursting)
    /\ UNCHANGED << now, hidden, splash, doc, projectFilters, fault, pnFrames, pnTick, pnDestroyed,
                    startBursts, dgVars >>

\* The window 'resize' listener of ParticleNetwork.bindEvents.  Assigning
\* canvas.width clears the canvas.
PNResize(vp, draws) ==
    /\ window' = vp
    /\ pn' = [pn EXCEPT !.canvas = PNResizeCanvas(vp),
                        !.particles = createParticles(PNResizeCanvas(vp), draws),
                        !.startTime = Null]
    /\ pnCtx' = BlankCtx
    /\ pnResizedInBurst' = (pnResizedInBurst \/ Bursting)
    /\ UNCHANGED << now, hidden, splash, doc, projectFilters, fault, pnFrames, pnTick, pnDestroyed,
                    startBursts, dgVars >>

\* The canvas 'mousemove' listener of ParticleNetwork.bindEvents.
PNMouseMove(pos) ==
    /\ pn' = [pn EXCEPT !.mouse = [x |-> Some(pos[1] * PX), y |-> Some(pos[2] * PX)]]
    /\ UNCHANGED << hostVars, pnFrames, pnCtx, pnTick, pnDestroyed,
                    pnResizedInBurst, startBursts, dgVars >>

\* The canvas 'mouseleave' listener of ParticleNetwork.bindEvents.
PNMouseLeave ==
    /\ pn' = [pn EXCEPT !.mouse = [x |-> Null, y |-> Null]]
    /\ UNCHANGED << hostVars, pnFrames, pnCtx, pnTick, pnDestroyed,
                    pnResizedInBurst, startBursts, dgVars >>

\* The document 'visibilitychange' listener of ParticleNetwork.bindEvents,
\* run when the page changes between visible and hidden.
PNOnVisibilityChange ==
    IF ~hidden'
    THEN /\ Cardinality(pnFrames) < MaxPending
         /\ pn' = [pn EXCEPT !.isVisible = TRUE,
                             !.animationId = Some(NewHandle(pnFrames))]
         /\ pnFrames' = pnFrames \cup {NewHandle(pnFrames)}
    ELSE /\ pn' = [pn EXCEPT !.isVisible = FALSE]
         /\ pnFrames' = pnFrames

\* A visibilitychange event on a page with the particle field only.
PNVisibilityChange ==
    /\ hidden' = ~hidden
    /\ PNOnVisibilityChange
    /\ UNCHANGED << now, window, splash, doc, projectFilters, fault, pnCtx, pnTick, pnDestroyed,
                    pnResizedInBurst, startBursts, dgVars >>

\* The splash timer of the DOMContentLoaded handler: the fade-out begins.
SplashTimeout ==
    /\ splash = "waiting"
    /\ splash' = "fading"
    /\ UNCHANGED << now, hidden, window, doc, fault, projectFilters, pnVars, dgVars >>

\* The 'transitionend' listener of the splash (once): the splash is removed
\* and, if the page has a particle field, its burst is fired.
SplashTransitionEnd ==
    /\ splash = "fading"
    /\ splash' = "gone"
    /\ IF doc.particleCanvas
       THEN /\ pn' = startBurst(pn)
            /\ startBursts' = startBursts + 1
            /\ pnResizedInBurst' = FALSE
       ELSE UNCHANGED << pn, startBursts, pnResizedInBurst >>
    /\ UNCHANGED << now, hidden, window, doc, fault, projectFilters, pnFrames, pnCtx, pnTick,
                    pnDestroyed, dgVars >>

\* ParticleNetwork.destroy
PNDestroy ==
    /\ ~pnDestroyed
    /\ pnDestroyed' = TRUE
    /\ pnFrames' = IF Truthy(pn.animationId)
                   THEN pnFrames \ {Val(pn.animationId)}
                   ELSE pnFrames
    /\ UNCHANGED << hostVars, pn, pnCtx, pnTick, pnResizedInBurst, startBursts, dgVars >>

PNNext ==
    \/ \E id \in pnFrames, dt \in TickSteps : PNAnimate(id, dt)
    \/ \E vp \in Viewports, draws \in DrawSequences :
          PNResize(vp, draws)
    \/ \E pos \in PointerPositions : PNMouseMove(pos)
    \/ PNMouseLeave
    \/ PNVisibilityChange
    \/ SplashTimeout
    \/ SplashTransitionEnd
    \/ PNDestroy

\* ------------------------------------------------------------------------
\* DotGrid: the handlers
\* ------------------------------------------------------------------------
\* DotGrid.animate called on the object o with the pending requests frames:
\* the object, the pending requests and the canvas after the call.  With a
\* null context the first statement of draw (ctx.clearRect) raises a
\* TypeError: the pointer has been smoothed, nothing is drawn and no frame
\* is requested.
dgAnimate(o, frames, ctx) ==
    IF ~o.isVisible
    THEN [o |-> o, frames |-> frames, ctx |-> ctx, kind |-> "hidden"]
    ELSE LET moved == [o EXCEPT !.mouse = Lerp(o.mouse, o.target)]
         IN IF o.ctx
            THEN [ o |-> [moved EXCEPT !.animationId = Some(NewHandle(frames))],
                   frames |-> frames \cup {NewHandle(frames)},
                   ctx |-> dgDraw(moved),
                   kind |-> "active" ]
            ELSE [o |-> moved, frames |-> frames, ctx |-> ctx, kind |-> "fault"]

\* The faults on record after a call of DotGrid.animate that returned r.
DGFault(r) == IF r.kind = "fault" THEN fault \cup {"DotGrid"} ELSE fault

\* The state after `new DotGrid(canvas)`: the constructor, then init()
\* (resize, bindEvents, a first call of animate).
DGInit ==
    LET r == dgAnimate(NewDotGrid(window, hidden), {}, << >>)
    IN /\ dg = r.o
       /\ dgFrames = r.frames
       /\ dgCtx = r.ctx
       /\ dgDestroyed = FALSE
       /\ dgPointerEvents = 0

\* DotGrid.animate, run as the frame callback with handle id.
DGAnimate(id) ==
    /\ id \in dgFrames
    /\ LET r == dgAnimate(dg, dgFrames \ {id}, dgCtx)
       IN /\ dg' = r.o
          /\ dgFrames' = r.frames
          /\ dgCtx' = r.ctx
          /\ fault' = DGFault(r)
    /\ UNCHANGED << now, hidden, window, splash, doc, projectFilters, pnVars, dgDestroyed,
                    dgPointerEvents >>

\* The window 'resize' listener of DotGrid.bindEvents.  Assigning
\* canvas.width clears the canvas.
DGResize(vp) ==
    /\ window' = vp
    /\ dg' = [dg EXCEPT !.canvas = DGResizeCanvas(vp)]
    /\ dgCtx' = << >>
    /\ UNCHANGED << now, hidden, splash, doc, projectFilters, fault, pnVars, dgFrames, dgDestroyed,
                    dgPointerEvents >>

\* The window 'mousemove' listener of DotGrid.bindEvents.
DGMouseMove(pos) ==
    /\ dgPointerEvents < MaxPointerEvents
    /\ dg.target # [x |-> pos[1] * PX, y |-> pos[2] * PX]
    /\ dgPointerEvents' = dgPointerEvents + 1
    /\ dg' = [dg EXCEPT !.target = [x |-> pos[1] * PX, y |-> pos[2] * PX]]
    /\ UNCHANGED << hostVars, pnVars, dgFrames, dgCtx, dgDestroyed >>

\* The window 'mouseleave' listener of DotGrid.bindEvents.
DGMouseLeave ==
    /\ dgPointerEvents < MaxPointerEvents
    /\ dg.target # [x |-> OffCanvas, y |-> OffCanvas]
    /\ dgPointerEvents' = dgPointerEvents + 1
    /\ dg' = [dg EXCEPT !.target = [x |-> OffCanvas, y |-> OffCanvas]]
    /\ UNCHANGED << hostVars, pnVars, dgFrames, dgCtx, dgDestroyed >>

\* DGOnVisibilityChange putting the smoothed pointer back off the canvas
\* when the page becomes visible.
DGOnVisibilityChangeResets ==
    /\ ~hidden' => Cardinality(dgFrames) < MaxPending
    /\ LET r == dgAnimate([dg EXCEPT !.isVisible = ~hidden',
                                     !.mouse = IF hidden' THEN dg.mouse
                                               ELSE [x |-> OffCanvas, y |-> OffCanvas]],
                          dgFrames, dgCtx)
       IN /\ dg' = r.o
          /\ dgFrames' = r.frames
          /\ dgCtx' = r.ctx
          /\ fault' = DGFault(r)

\* The document 'visibilitychange' listener of DotGrid.bindEvents, run when
\* the page changes between visible and hidden.
DGOnVisibilityChange ==
    /\ ~hidden' => Cardinality(dgFrames) < MaxPending
    /\ LET r == dgAnimate([dg EXCEPT !.isVisible = ~hidden'], dgFrames, dgCtx)
       IN /\ dg' = r.o
          /\ dgFrames' = r.frames
          /\ dgCtx' = r.ctx
          /\ fault' = DGFault(r)

\* A visibilitychange event on a page with the dot grid only.
DGVisibilityChange ==
    /\ hidden' = ~hidden
    /\ DGOnVisibilityChange
    /\ UNCHANGED << now, window, splash, doc, projectFilters, pnVars, dgDestroyed, dgPointerEvents >>

\* DotGrid.destroy
DGDestroy ==
    /\ ~dgDestroyed
    /\ dgDestroyed' = TRUE
    /\ dgFrames' = IF Truthy(dg.animationId)
                   THEN dgFrames \ {Val(dg.animationId)}
                   ELSE dgFrames
    /\ UNCHANGED << hostVars, pnVars, dg, dgCtx, dgPointerEvents >>

DGNext ==
    \/ \E id \in dgFrames : DGAnimate(id)
    \/ \E vp \in DGViewports : DGResize(vp)
    \/ \E pos \in PointerPositions : DGMouseMove(pos)
    \/ DGMouseLeave
    \/ DGVisibilityChange
    \/ DGDestroy

\* The page has no dot-grid canvas, or reduced motion is requested: the
\* DOMContentLoaded handler constructs no DotGrid.
DGAbsent ==
    /\ dg = [NewDotGrid(window, hidden) EXCEPT !.isVisible = FALSE]
    /\ dgFrames = {}
    /\ dgCtx = << >>
    /\ dgDestroyed = FALSE
    /\ dgPointerEvents = 0

\* The page has no particle canvas: the DOMContentLoaded handler constructs
\* no ParticleNetwork and removes the splash at once.
PNAbsent ==
    /\ splash = "none"
    /\ pn = [ canvas |-> PNResizeCanvas(window), particles |-> << >>,
              ctx |-> TRUE,
              mouse |-> [x |-> Null, y |-> Null], animationId |-> Null,
              isVisible |-> FALSE, startTime |-> Null, burstReady |-> FALSE ]
    /\ pnFrames = {}
    /\ pnCtx = BlankCtx
    /\ pnTick = NoTick
    /\ pnDestroyed = FALSE
    /\ pnResizedInBurst = FALSE
    /\ startBursts = 0

\* ------------------------------------------------------------------------
\* ProjectFilters
\* ------------------------------------------------------------------------
\* String.prototype.includes on strings given as sequences of characters.
includes(string, search) ==
    \E k \in 0..(Len(string) - Len(search)) :
       SubSeq(string, k + 1, k + Len(search)) = search

\* The ProjectFilters constructor on a page whose project cards carry the
\* data-category attributes categories: each card with its inline style as
\* loaded, no callback pending and no filter button clicked yet.  The
\* fields timers and frames count, per card, the setTimeout and
\* requestAnimationFrame callbacks that filterProjects has armed and that
\* have not run.
NewProjectFilters(categories) ==
    [ projects |-> [i \in DOMAIN categories |->
                      [ category |-> categories[i], display |-> "", opacity |-> "",
                        transform |-> "", transition |-> "" ]],
      timers |-> [i \in DOMAIN categories |-> 0],
      frames |-> [i \in DOMAIN categories |-> 0],
      active |-> Null ]

\* filterProjects: the test that shows a card.
Shown(filter, project) ==
    filter = << "a", "l", "l" >> \/ includes(project.category, filter)

\* filterProjects: the object after the call.
filterProjects(o, filter) ==
    [o EXCEPT
       !.projects = [i \in DOMAIN o.projects |->
                       IF Shown(filter, o.projects[i])
                       THEN [o.projects[i] EXCEPT !.display = "",
                                                  !.opacity = "0",
                                                  !.transform = "translateY(20px)"]
                       ELSE [o.projects[i] EXCEPT !.opacity = "0",
                                                  !.transform = "translateY(20px)"]],
       !.frames = [i \in DOMAIN o.projects |->
                     IF Shown(filter, o.projects[i]) THEN o.frames[i] + 1 ELSE o.frames[i]],
       !.timers = [i \in DOMAIN o.projects |->
                     IF Shown(filter, o.projects[i]) THEN o.timers[i] ELSE o.timers[i] + 1]]

\* The 'click' listener of a filter button (init): setActiveFilter, then
\* filterProjects.
FilterClick(filter) ==
    /\ \A i \in DOMAIN projectFilters.projects :
          /\ projectFilters.timers[i] < MaxCallbacks
          /\ projectFilters.frames[i] < MaxCallbacks
    /\ projectFilters' = filterProjects([projectFilters EXCEPT !.active = Some(filter)],
                                        filter)
    /\ UNCHANGED << now, hidden, window, splash, doc, fault, pnVars, dgVars >>

\* The requestAnimationFrame callback armed by filterProjects for a shown
\* card.
ShowFrame(i) ==
    /\ projectFilters.frames[i] > 0
    /\ projectFilters' =
          [projectFilters EXCEPT
             !.frames[i] = @ - 1,
             !.projects[i] = [@ EXCEPT !.transition = "opacity 0.3s ease, transform 0.3s ease",
                                       !.opacity = "1",
                                       !.transform = "translateY(0)"]]
    /\ UNCHANGED << now, hidden, window, splash, doc, fault, pnVars, dgVars >>

\* The setTimeout callback armed by filterProjects for a card that is not
\* shown.
HideTimer(i) ==
    /\ projectFilters.timers[i] > 0
    /\ projectFilters' = [projectFilters EXCEPT !.timers[i] = @ - 1,
                                                !.projects[i].display = "none"]
    /\ UNCHANGED << now, hidden, window, splash, doc, fault, pnVars, dgVars >>

\* ------------------------------------------------------------------------
\* Specifications
\* ------------------------------------------------------------------------
vars == << hostVars, pnVars, dgVars >>

\* The particle field under its events; the dot grid stays as constructed.
InitPN ==
    /\ now = 0
    /\ fault = {}
    /\ projectFilters = NewProjectFilters(<< >>)
    /\ hidden = FALSE
    /\ window \in Viewports
    /\ PNInit
    /\ doc = LoadedDoc(TRUE, FALSE)
    /\ DGAbsent

SpecPN == InitPN /\ [][PNNext]_vars

\* The dot grid under its events; the particle field stays as constructed.
InitDG ==
    /\ now = 0
    /\ fault = {}
    /\ projectFilters = NewProjectFilters(<< >>)
    /\ hidden \in BOOLEAN
    /\ window \in DGViewports
    /\ PNAbsent
    /\ doc = LoadedDoc(FALSE, TRUE)
    /\ DGInit

SpecDG == InitDG /\ [][DGNext]_vars

\* A frozen particle layout handed to draw: positions drawn from
\* FrozenPoints, among them pairs exactly connectionDistance apart.
FrozenCount == 3
FrozenPoints == { << 0, 0 >>, << 15999, 0 >>, << 16000, 0 >>,
                  << 9600, 12800 >>, << 32000, 0 >> }
FrozenBurstTs == { 0, 500, 4000, 4001, 7000, ONE }

FrozenParticle(pt) ==
    [ x |-> pt[1], y |-> pt[2], tx |-> pt[1], ty |-> pt[2],
      size |-> 2 * PX, normDist |-> 5000,
      driftAngle |-> 0, driftSpeed |-> 1000, driftRadius |-> 6 * PX,
      ox |-> Some(pt[1]), oy |-> Some(pt[2]) ]

InitDraw ==
    /\ now = 0
    /\ fault = {}
    /\ projectFilters = NewProjectFilters(<< >>)
    /\ hidden = FALSE
    /\ window = << 320, 200 >>
    /\ splash = "none"
    /\ doc = LoadedDoc(TRUE, FALSE)
    /\ \E layout \in [1..FrozenCount -> FrozenPoints], m \in {0, 1, 2} :
          pn = [ canvas |-> PNResizeCanvas(window), ctx |-> TRUE,
                 particles |-> [i \in 1..FrozenCount |-> FrozenParticle(layout[i])],
                 mouse |-> IF m = 0 THEN [x |-> Null, y |-> Null]
                           ELSE IF m = 1
                           THEN [x |-> Some(40 * PX), y |-> Some(60 * PX)]
                           ELSE [x |-> Some(0), y |-> Some(0)],
                 animationId |-> Some(1), isVisible |-> TRUE,
                 startTime |-> Some(1), burstReady |-> TRUE ]
    /\ pnFrames = {1}
    /\ pnCtx = BlankCtx
    /\ pnTick \in [kind : {"none"}, burstT : FrozenBurstTs]
    /\ pnDestroyed = FALSE
    /\ pnResizedInBurst = FALSE
    /\ startBursts = IF splash = "none" THEN 1 ELSE 0
    /\ DGAbsent

\* One call of ParticleNetwork.draw on the frozen layout.
DrawFrozen ==
    /\ pnTick.kind = "none"
    /\ pnCtx' = draw(pn, pnTick.burstT)
    /\ pnTick' = [pnTick EXCEPT !.kind = "active"]
    /\ UNCHANGED << hostVars, pn, pnFrames, pnDestroyed, pnResizedInBurst, startBursts, dgVars >>

\* ParticleNetwork.draw applied once to a frozen layout.
SpecDraw == InitDraw /\ [][DrawFrozen]_vars

\* The state after the DOMContentLoaded handler on a page whose particle
\* canvas yields no 2D context (getContext returns null): the constructor
\* runs all the same.
PNInitNoCtx ==
    /\ splash \in {"none", "waiting"}
    /\ \E draws \in DrawSequences :
          pn = [(IF splash = "none"
                 THEN startBurst(NewParticleNetwork(window, draws))
                 ELSE NewParticleNetwork(window, draws)) EXCEPT !.ctx = FALSE]
    /\ pnFrames = {1}
    /\ pnCtx = BlankCtx
    /\ pnTick = NoTick
    /\ pnDestroyed = FALSE
    /\ pnResizedInBurst = FALSE
    /\ startBursts = IF splash = "none" THEN 1 ELSE 0

InitNoCtx ==
    /\ now = 0
    /\ fault = {}
    /\ projectFilters = NewProjectFilters(<< >>)
    /\ hidden = FALSE
    /\ window \in Viewports
    /\ PNInitNoCtx
    /\ doc = LoadedDoc(TRUE, FALSE)
    /\ DGAbsent

\* The particle field constructed without a 2D context, under its events.
SpecNoCtx == InitNoCtx /\ [][PNNext]_vars

\* Time from one ParticleNetwork frame to the next on the page with both
\* fields (ms).
PageSteps == {1650}

\* A page with both fields and no splash, as the DOMContentLoaded handler
\* leaves it.
InitPage ==
    /\ now = 0
    /\ fault = {}
    /\ projectFilters = NewProjectFilters(<< >>)
    /\ hidden = FALSE
    /\ window \in DGViewports
    /\ PNInit
    /\ splash = "none"
    /\ doc = LoadedDoc(TRUE, TRUE)
    /\ DGInit

\* A visibilitychange event of the document: the listeners of both fields
\* run, in the order they were bound.
PageVisibilityChange ==
    /\ hidden' = ~hidden
    /\ PNOnVisibilityChange
    /\ DGOnVisibilityChange
    /\ UNCHANGED << now, window, splash, doc, projectFilters, pnCtx, pnTick, pnDestroyed,
                    pnResizedInBurst, startBursts, dgDestroyed, dgPointerEvents >>

PageNext ==
    \/ \E id \in pnFrames, dt \in PageSteps : PNAnimate(id, dt)
    \/ \E id \in dgFrames : DGAnimate(id)
    \/ \E pos \in PointerPositions : DGMouseMove(pos)
    \/ PageVisibilityChange

\* Both fields on one page under frames, a pointer move and visibility
\* changes.
SpecPage == InitPage /\ [][PageNext]_vars

\* Time from one ParticleNetwork frame to the next in a finely sampled
\* burst (ms).
FineSteps == {110, 330}

\* A page without splash: the burst runs from the first frame, sampled at
\* multiples of 110 ms.
InitBurst ==
    /\ InitPN
    /\ splash = "none"

BurstNext == \E id \in pnFrames, dt \in FineSteps : PNAnimate(id, dt)

\* One burst of the particle field under frames only.
SpecBurst == InitBurst /\ [][BurstNext]_vars

\* The particle field before the DOMContentLoaded handler has run: nothing
\* is constructed and no frame is requested.
PNUnconstructed ==
    /\ pn = [ canvas |-> PNResizeCanvas(window), particles |-> << >>,
              ctx |-> TRUE,
              mouse |-> [x |-> Null, y |-> Null], animationId |-> Null,
              isVisible |-> FALSE, startTime |-> Null, burstReady |-> FALSE ]
    /\ pnFrames = {}
    /\ pnCtx = BlankCtx
    /\ pnTick = NoTick
    /\ pnDestroyed = FALSE
    /\ pnResizedInBurst = FALSE
    /\ startBursts = 0

\* The page before DOMContentLoaded: the document has or lacks the particle
\* canvas, the intro splash and the dot-grid canvas, and the user has or
\* has not requested reduced motion.
InitLoad ==
    /\ now = 0
    /\ fault = {}
    /\ projectFilters = NewProjectFilters(<< >>)
    /\ hidden = FALSE
    /\ window \in DGViewports
    /\ doc \in [ loaded : {FALSE}, particleCanvas : BOOLEAN, splash : BOOLEAN,
                  reducedMotion : BOOLEAN, dotGridCanvas : BOOLEAN ]
    /\ splash = IF doc.splash THEN "shown" ELSE "none"
    /\ PNUnconstructed
    /\ DGAbsent

\* The DOMContentLoaded handler calling startBurst whether or not a splash
\* is to play first.
DOMContentLoadedBurstsAtOnce(draws) ==
    /\ ~doc.loaded
    /\ doc' = [doc EXCEPT !.loaded = TRUE]
    /\ splash' = IF doc.splash /\ ~doc.reducedMotion THEN "waiting" ELSE "none"
    /\ IF doc.particleCanvas
       THEN /\ pn' = startBurst(NewParticleNetwork(window, draws))
            /\ pnFrames' = {1}
            /\ startBursts' = startBursts + 1
       ELSE UNCHANGED << pn, pnFrames, startBursts >>
    /\ IF doc.dotGridCanvas /\ ~doc.reducedMotion
       THEN LET r == dgAnimate(NewDotGrid(window, hidden), {}, << >>)
            IN dg' = r.o /\ dgFrames' = r.frames /\ dgCtx' = r.ctx
       ELSE UNCHANGED << dg, dgFrames, dgCtx >>
    /\ UNCHANGED << now, hidden, window, fault, projectFilters, pnCtx, pnTick, pnDestroyed,
                    pnResizedInBurst, dgDestroyed, dgPointerEvents >>

\* The DOMContentLoaded handler: the particle field is constructed if its
\* canvas exists; with a splash and no reduced motion the splash timer is
\* armed, otherwise the splash is removed and the burst fired at once; the
\* dot grid is constructed if its canvas exists and motion is not reduced.
DOMContentLoaded(draws) ==
    /\ ~doc.loaded
    /\ doc' = [doc EXCEPT !.loaded = TRUE]
    /\ splash' = IF doc.splash /\ ~doc.reducedMotion THEN "waiting" ELSE "none"
    /\ IF doc.particleCanvas
       THEN /\ pn' = IF doc.splash /\ ~doc.reducedMotion
                     THEN NewParticleNetwork(window, draws)
                     ELSE startBurst(NewParticleNetwork(window, draws))
            /\ pnFrames' = {1}
            /\ startBursts' = IF doc.splash /\ ~doc.reducedMotion
                              THEN startBursts
                              ELSE startBursts + 1
       ELSE UNCHANGED << pn, pnFrames, startBursts >>
    /\ IF doc.dotGridCanvas /\ ~doc.reducedMotion
       THEN LET r == dgAnimate(NewDotGrid(window, hidden), {}, << >>)
            IN dg' = r.o /\ dgFrames' = r.frames /\ dgCtx' = r.ctx
       ELSE UNCHANGED << dg, dgFrames, dgCtx >>
    /\ UNCHANGED << now, hidden, window, fault, projectFilters, pnCtx, pnTick, pnDestroyed,
                    pnResizedInBurst, dgDestroyed, dgPointerEvents >>

\* The window 'resize' listener of the particle field, bound once the field
\* is constructed.
LoadResize(vp, draws) ==
    /\ doc.loaded /\ doc.particleCanvas
    /\ PNResize(vp, draws)

LoadNext ==
    \/ \E draws \in DrawSequences : DOMContentLoaded(draws)
    \/ SplashTimeout
    \/ SplashTransitionEnd
    \/ \E id \in pnFrames, dt \in TickSteps : PNAnimate(id, dt)
    \/ \E id \in dgFrames : DGAnimate(id)
    \/ \E vp \in DGViewports, draws \in DrawSequences : LoadResize(vp, draws)

\* The page from before DOMContentLoaded on: the handler, the splash, the
\* frames of both fields and resizes.
SpecLoad == InitLoad /\ [][LoadNext]_vars

\* window.innerWidth x window.innerHeight of a desktop window (px), and
\* e.clientX, e.clientY of a mousemove near its lower right corner.
DesktopViewports == { <<1280, 1024>> }
CornerPositions == { <<1200, 1000>> }

\* The dot grid on a visible page without particle canvas, in a window
\* drawn from viewports, after one mousemove to a position drawn from
\* positions and enough frames for the smoothed pointer to have arrived
\* there: the latest frame is on the canvas and the next one is requested.
LeaveInit(viewports, positions) ==
    /\ now = 0
    /\ fault = {}
    /\ projectFilters = NewProjectFilters(<< >>)
    /\ hidden = FALSE
    /\ window \in viewports
    /\ PNAbsent
    /\ doc = LoadedDoc(FALSE, TRUE)
    /\ \E pos \in positions :
          dg = [NewDotGrid(window, hidden) EXCEPT
                   !.mouse = [x |-> pos[1] * PX, y |-> pos[2] * PX],
                   !.target = [x |-> pos[1] * PX, y |-> pos[2] * PX],
                   !.animationId = Some(1)]
    /\ dgFrames = {1}
    /\ dgCtx = dgDraw(dg)
    /\ dgDestroyed = FALSE
    /\ dgPointerEvents = 1

LeaveNext ==
    \/ \E id \in dgFrames : DGAnimate(id)
    \/ DGMouseLeave
    \/ DGVisibilityChange

\* The dot grid in a desktop window, from a pointer at rest near the lower
\* right corner on, under frames, the pointer leaving and visibility
\* changes.
InitLeave == LeaveInit(DesktopViewports, CornerPositions)
SpecLeave == InitLeave /\ [][LeaveNext]_vars

\* The same in the small window the dot grid is otherwise run with.
InitFade == LeaveInit(DGViewports, PointerPositions)
SpecFade == InitFade /\ [][LeaveNext]_vars

\* SpecFade under the host's frame scheduling: a requested frame callback
\* is eventually run.
SpecFadeLive == SpecFade /\ WF_vars(\E id \in dgFrames : DGAnimate(id))

\* The first frame callback of the page, handed the timestamp 0 (the frame
\* clock starts with the first frame).
FirstFrameAtZero ==
    /\ pnTick = NoTick
    /\ now = 0
    /\ \E id \in pnFrames : PNAnimate(id, 0)

ZeroNext ==
    \/ FirstFrameAtZero
    \/ \E id \in pnFrames, dt \in TickSteps : PNAnimate(id, dt)
    \/ \E vp \in Viewports, draws \in DrawSequences : PNResize(vp, draws)
    \/ SplashTimeout
    \/ SplashTransitionEnd

\* The particle field under frames whose timestamps start at 0 or later,
\* resizes and the splash.
SpecZero == InitPN /\ [][ZeroNext]_vars

\* A page with project cards and filter buttons and neither canvas, as the
\* DOMContentLoaded handler leaves it.
InitFilters ==
    /\ now = 0
    /\ fault = {}
    /\ projectFilters = NewProjectFilters(CardCategories)
    /\ hidden = FALSE
    /\ window \in DGViewports
    /\ PNAbsent
    /\ doc = LoadedDoc(FALSE, FALSE)
    /\ DGAbsent

FiltersNext ==
    \/ \E filter \in FilterButtons : FilterClick(filter)
    \/ \E i \in DOMAIN projectFilters.projects : ShowFrame(i)
    \/ \E i \in DOMAIN projectFilters.projects : HideTimer(i)

\* The project filters under clicks and the callbacks they arm, in any
\* order.
SpecFilters == InitFilters /\ [][FiltersNext]_vars

\* ------------------------------------------------------------------------
\* Properties
\* ------------------------------------------------------------------------
\* A step in which a ParticleNetwork frame callback runs.
TickRan == now' # now
\* A step in which a visible, triggered ParticleNetwork frame updates and draws.
ActiveTick == TickRan /\ pnTick'.kind = "active"
\* Something visible is on the particle canvas.
Painted(ctx) ==
    \/ ctx.edges # << >>
    \/ \E k \in DOMAIN ctx.nodes : ctx.nodes[k].alpha > 0
AtCenter(o, i) ==
    /\ o.particles[i].x = CenterX(o.canvas)
    /\ o.particles[i].y = CenterY(o.canvas)

\* C1 (as stated): once a resize has run while the field was Bursting, no
\* later frame moves a particle or paints a node or an edge (startBurst has
\* not been called again).
C1_ResizeReturnsToIdle ==
    [][(pnResizedInBurst /\ TickRan) =>
          (pn'.particles = pn.particles /\ ~Painted(pnCtx'))]_vars

\* C1 (amended): after a resize that ran while the field was Bursting, and
\* until the next frame that draws, the canvas is blank, the field is still
\* triggered, the burst clock is null and every particle rests at the center
\* without origin; the next visible frame restarts the burst at progress 0
\* from its own timestamp and draws every node.
C1_ResizeRestartsBurst ==
    /\ [](pnResizedInBurst /\ pnCtx = BlankCtx =>
            /\ pn.burstReady
            /\ pn.startTime = Null
            /\ \A i \in DOMAIN pn.particles :
                  AtCenter(pn, i) /\ pn.particles[i].ox = Null)
    /\ [][(pnResizedInBurst /\ pnCtx = BlankCtx /\ pn.isVisible /\ TickRan) =>
             /\ pn'.startTime = Some(now')
             /\ pnTick' = [kind |-> "active", burstT |-> 0]
             /\ Len(pnCtx'.nodes) = particleCount]_vars

\* A burst restarted by a resize is under way again: particles have left
\* the center and nodes are visible.
C1_Witness ==
    /\ pnResizedInBurst
    /\ Bursting
    /\ pnTick.kind = "active" /\ pnTick.burstT > 0 /\ pnTick.burstT < ONE
    /\ Painted(pnCtx)
    /\ \E i \in DOMAIN pn.particles : ~AtCenter(pn, i)

\* C2: each field has at most one frame request pending.
C2_AtMostOnePendingFrame ==
    /\ Cardinality(pnFrames) <= 1
    /\ Cardinality(dgFrames) <= 1

\* C3: after destroy(), a field requests no further frame and runs no
\* further update/draw frame.
C3_NoFrameAfterDestroy ==
    [][/\ pnDestroyed =>
            /\ Cardinality(pnFrames') <= Cardinality(pnFrames)
            /\ ~ActiveTick
       /\ dgDestroyed =>
            /\ dgFrames' \subseteq dgFrames
            /\ dg'.mouse = dg.mouse]_vars

\* C4: after destroy(), a pointer event leaves the field's pointer state
\* unchanged.
C4_PointerIgnoredAfterDestroy ==
    [][/\ pnDestroyed => pn'.mouse = pn.mouse
       /\ dgDestroyed => dg'.target = dg.target]_vars

\* The tolerance 1e-3 px, rounded up to the position resolution.
Tolerance == (PX + 999) \div 1000

\* C5 (as stated): in every frame with global burst progress >= 1, every
\* particle's position equals its target within 1e-3 px.
C5_SettledAtTarget ==
    [][(ActiveTick /\ pnTick'.burstT >= ONE) =>
          \A i \in DOMAIN pn'.particles :
             LET p == pn'.particles[i]
             IN Abs(p.x - p.tx) <= Tolerance /\ Abs(p.y - p.ty) <= Tolerance]_vars

\* The largest pointer repulsion offset: (d * (1 - d/R)) * 0.025 at d = R/2.
MaxRepulsion == ((mouseRadius \div 4) * 25) \div 1000 + 2

\* C5 (amended): in every frame with global burst progress >= 1, every
\* particle's origin equals its target exactly, and its position lies within
\* its drift amplitude driftRadius * driftSpeed (at most 4.32 px) plus the
\* pointer repulsion (at most 1.125 px) of the target.
C5_SettledNearTarget ==
    [][(ActiveTick /\ pnTick'.burstT >= ONE) =>
          \A i \in DOMAIN pn'.particles :
             LET p == pn'.particles[i]
             IN /\ p.ox = Some(p.tx) /\ p.oy = Some(p.ty)
                /\ Hypot(p.x - p.tx, p.y - p.ty)
                     <= (p.driftRadius * p.driftSpeed) \div ONE + 2 + MaxRepulsion]_vars

\* The first done frame has run at progress exactly 1 and a particle is off
\* its target.
C5_Witness ==
    /\ pnTick.kind = "active" /\ pnTick.burstT = ONE
    /\ \A i \in DOMAIN pn.particles : pn.particles[i].ox # Null
    /\ \E i \in DOMAIN pn.particles :
          Abs(pn.particles[i].x - pn.particles[i].tx) > Tolerance

\* C6: a particle's origin goes from null to its target in a frame in which
\* its eased local progress is 1, at the first such frame, and no later
\* frame changes it; only a regeneration or the trigger sets it back to null.
C6_OriginSetOnce ==
    [][\A i \in DOMAIN pn.particles :
          LET p == pn.particles[i]
              q == pn'.particles[i]
          IN /\ (p.ox # Null /\ TickRan) => (q.ox = p.ox /\ q.oy = p.oy)
             /\ (p.ox # Null /\ q.ox # p.ox) => (q.ox = Null /\ q.oy = Null)
             /\ (p.ox = Null /\ q.ox # Null) =>
                   /\ ActiveTick
                   /\ q.ox = Some(p.tx) /\ q.oy = Some(p.ty)
                   /\ q.tx = p.tx /\ q.ty = p.ty
                   /\ Eased(p, pnTick'.burstT) = ONE
             /\ (ActiveTick /\ Eased(p, pnTick'.burstT) >= ONE) => q.ox # Null]_vars

\* Two done frames have run: the origin was set by the first and kept by the
\* second.
C6_Witness ==
    /\ pnTick.kind = "active" /\ pnTick.burstT = ONE
    /\ \A i \in DOMAIN pn.particles :
          /\ pn.particles[i].ox = Some(pn.particles[i].tx)
          /\ pn.particles[i].driftAngle \in {8, 1578}

\* C7: while the field is Idle, a frame leaves the particles and the burst
\* clock as they are and the canvas blank.
C7_IdleFrameDoesNothing ==
    [][(TickRan /\ ~pn.burstReady) =>
          /\ pn'.particles = pn.particles
          /\ pn'.startTime = pn.startTime
          /\ ~pn'.burstReady
          /\ pnCtx' = BlankCtx]_vars

\* Idle frames have run, with a pointer event in between.
C7_Witness ==
    /\ ~pn.burstReady
    /\ pnTick.kind = "idle"
    /\ now >= 1100
    /\ pn.mouse.x # Null

\* C8: in a frame with elapsed = 0 (the burst clock is this frame's
\* timestamp), every particle is at the field center, and is drawn there.
C8_FirstFrameAtCenter ==
    [][(ActiveTick /\ pn'.startTime = Some(now')) =>
          \A i \in DOMAIN pn'.particles :
             /\ AtCenter(pn', i)
             /\ pnCtx'.nodes[i].x = CenterX(pn'.canvas)
             /\ pnCtx'.nodes[i].y = CenterY(pn'.canvas)]_vars

\* The first active frame has run, with a particle near the center and one
\* near the edge.
C8_Witness ==
    /\ pnTick.kind = "active"
    /\ pn.startTime = Some(now)
    /\ \E i, j \in DOMAIN pn.particles :
          pn.particles[i].normDist < 2000 /\ pn.particles[j].normDist > 9000

\* The pairs i < j of the layout strictly closer than connectionDistance,
\* by comparing squared distances.
ClosePairs(parts) ==
    { ij \in (DOMAIN parts) \X (DOMAIN parts) :
        /\ ij[1] < ij[2]
        /\ LET dx == parts[ij[1]].x - parts[ij[2]].x
               dy == parts[ij[1]].y - parts[ij[2]].y
           IN dx * dx + dy * dy < connectionDistance * connectionDistance }
\* The pairs whose edge the last draw stroked.
DrawnPairs == { << pnCtx.edges[k].i, pnCtx.edges[k].j >> : k \in DOMAIN pnCtx.edges }
ExactlyClosePairsDrawn ==
    /\ DrawnPairs = ClosePairs(pn.particles)
    /\ Len(pnCtx.edges) = Cardinality(ClosePairs(pn.particles))

\* C9 (as stated): a draw call strokes exactly the pairs strictly closer
\* than connectionDistance, each once.
C9_EdgesAreClosePairs ==
    pnTick.kind = "active" => ExactlyClosePairsDrawn

\* C9 (amended): a draw call whose line alpha is positive (burst progress
\* above 0.4) strokes exactly the pairs strictly closer than
\* connectionDistance, each once; with progress at most 0.4 it strokes none.
C9_EdgesAreClosePairsWhenLinesShow ==
    pnTick.kind = "active" =>
       IF pnTick.burstT > 4000
       THEN ExactlyClosePairsDrawn
       ELSE pnCtx.edges = << >>

\* A draw with lines showing, a pair exactly connectionDistance apart (not
\* drawn) and a pair just below it (drawn).
C9_Witness ==
    /\ pnTick.kind = "active" /\ pnTick.burstT > 4000
    /\ \E i, j \in DOMAIN pn.particles :
          /\ i < j
          /\ Hypot(pn.particles[i].x - pn.particles[j].x,
                   pn.particles[i].y - pn.particles[j].y) = connectionDistance
          /\ << i, j >> \notin DrawnPairs
    /\ Len(pnCtx.edges) > 0

\* C10: in a frame run with the pointer absent, every edge boost and node
\* glow boost is 1, and once the burst is done every particle is exactly at
\* its origin plus its drift offset (no repulsion offset).
C10_AbsentPointerNoForce ==
    [][(ActiveTick /\ pn.mouse.x = Null) =>
          /\ \A k \in DOMAIN pnCtx'.edges : pnCtx'.edges[k].boost = ONE
          /\ \A i \in DOMAIN pn'.particles :
                LET p == pn'.particles[i]
                IN /\ pnCtx'.nodes[i].glowBoost = ONE
                   /\ pnCtx'.nodes[i].radius = p.size
                   /\ pnTick'.burstT >= ONE =>
                        /\ p.x = Val(p.ox) + (((Cos(p.driftAngle) * p.driftRadius)
                                                 \div ONE) * p.driftSpeed) \div ONE
                        /\ p.y = Val(p.oy) + (((Sin(p.driftAngle) * p.driftRadius)
                                                 \div ONE) * p.driftSpeed) \div ONE]_vars

\* A done frame has run with the pointer absent and edges drawn.
C10_Witness ==
    /\ pn.mouse.x = Null
    /\ pnTick.kind = "active" /\ pnTick.burstT = ONE
    /\ Len(pnCtx.edges) > 0

\* C11: every dot on the dot-grid canvas has an opacity in the closed
\* interval [baseOpacity, peakOpacity].
C11_OpacityWithinBounds ==
    \A rc \in DOMAIN dgCtx :
       dgCtx[rc].opacity >= baseOpacity /\ dgCtx[rc].opacity <= peakOpacity

\* A frame drawn with the smoothed pointer over the grid: a dot is revealed
\* above the base opacity while another stays at the base.
C11_Witness ==
    /\ \E rc \in DOMAIN dgCtx : dgCtx[rc].opacity > (baseOpacity + peakOpacity) \div 2
    /\ \E rc \in DOMAIN dgCtx : dgCtx[rc].opacity = baseOpacity

\* C12: from one frame of a burst to the next (the burst clock is set and
\* stays), no particle's eased local progress decreases.
C12_EasedNonDecreasing ==
    [][(ActiveTick /\ pn.startTime # Null /\ pn'.startTime = pn.startTime) =>
          \A i \in DOMAIN pn.particles :
             Eased(pn.particles[i], BurstT(pn'.startTime, now'))
                >= Eased(pn.particles[i], BurstT(pn.startTime, now))]_vars

\* A burst frame in which the particle with the longest stagger delay has
\* left the center but not arrived, after a frame in which it had not left.
C12_Witness ==
    /\ pnTick.kind = "active" /\ pnTick.burstT > 2500 /\ pnTick.burstT < ONE
    /\ \E i \in DOMAIN pn.particles :
          /\ pn.particles[i].normDist > 9000
          /\ Eased(pn.particles[i], pnTick.burstT) > 0
          /\ Eased(pn.particles[i], pnTick.burstT) < ONE
          /\ ~AtCenter(pn, i)

\* C13: a field constructed without a 2D context raises no fault and
\* draws nothing.
C13_MissingContextIsSilent ==
    /\ ~pn.ctx => ("ParticleNetwork" \notin fault /\ pnCtx = BlankCtx)
    /\ ~dg.ctx => ("DotGrid" \notin fault /\ dgCtx = << >>)

\* C14: while a field's isVisible is false, a frame callback of the field
\* changes nothing of the field, draws nothing and requests no frame; a
\* frame is requested for such a field only by the visibilitychange event
\* that reports the page visible.
C14_HiddenTickDoesNothing ==
    [][/\ (~pn.isVisible /\ TickRan) =>
            /\ pn' = pn
            /\ pnCtx' = pnCtx
            /\ pnFrames' \subseteq pnFrames
       /\ (~pn.isVisible /\ ~(pnFrames' \subseteq pnFrames)) =>
            (hidden /\ ~hidden' /\ pn'.isVisible)
       /\ (~dg.isVisible /\ hidden' = hidden /\ dg'.target = dg.target) =>
            /\ dg' = dg
            /\ dgCtx' = dgCtx
            /\ dgFrames' \subseteq dgFrames
       /\ (~dg.isVisible /\ ~(dgFrames' \subseteq dgFrames)) =>
            (hidden /\ ~hidden' /\ dg'.isVisible)]_vars

\* The page is hidden, both fields have run their pending frame callback
\* and none is pending, while the burst is under way and the smoothed
\* pointer is short of its target.
C14_Witness ==
    /\ hidden /\ ~pn.isVisible /\ ~dg.isVisible
    /\ pnTick.kind = "hidden"
    /\ pnFrames = {} /\ dgFrames = {}
    /\ pn.startTime # Null /\ Bursting
    /\ dg.target # dg.mouse

\* C15: every step leaves the dot grid's smoothed pointer as it is or moves
\* it by one smoothing step toward the target; it stays as it is while the
\* grid is not visible and when the page becomes hidden, and the event that
\* shows the page moves it by one smoothing step (it is not put back off
\* the canvas).
C15_SmoothedPointerContinuity ==
    [][/\ dg'.mouse \in {dg.mouse, Lerp(dg.mouse, dg.target)}
       /\ (~dg.isVisible /\ ~dg'.isVisible) => dg'.mouse = dg.mouse
       /\ (hidden' # hidden /\ hidden') => dg'.mouse = dg.mouse
       /\ (hidden' # hidden /\ ~hidden') => dg'.mouse = Lerp(dg.mouse, dg.target)]_vars

\* The page has been hidden and shown again with a frame still pending
\* (two requests are pending), while the smoothed pointer is on its way
\* from off the canvas to the pointer.
C15_Witness ==
    /\ dg.isVisible
    /\ Cardinality(dgFrames) = 2
    /\ dg.mouse.x > OffCanvas /\ dg.mouse.x < dg.target.x
    /\ Lerp(dg.mouse, dg.target) # dg.mouse

\* What createParticles generates for a particle and no frame changes.
Generated(p) ==
    << p.tx, p.ty, p.size, p.normDist, p.driftSpeed, p.driftRadius >>

\* C16: the particle collection always holds exactly particleCount
\* particles, and a step replaces the generated particles only if it is a
\* resize (the collection is then as createParticles leaves it, the canvas
\* is cleared and the burst clock is null).
C16_ParticleCountFixed ==
    /\ [](Len(pn.particles) = particleCount)
    /\ [][(\E i \in DOMAIN pn.particles :
              Generated(pn'.particles[i]) # Generated(pn.particles[i])) =>
             /\ \E draws \in DrawSequences :
                   pn'.particles = createParticles(pn'.canvas, draws)
             /\ pn'.canvas = PNResizeCanvas(window')
             /\ pn'.startTime = Null
             /\ pnCtx' = BlankCtx
             /\ now' = now]_vars

\* The splash has fired the trigger, a resize has replaced the particles
\* during the burst, and the burst has run to its end.
C16_Witness ==
    /\ splash = "gone"
    /\ pnResizedInBurst
    /\ pnTick.kind = "active" /\ pnTick.burstT = ONE
    /\ Len(pn.particles) = particleCount
    /\ \A i \in DOMAIN pn.particles : pn.particles[i].ox # Null

\* clamp((progress - 0.4) / 0.6, 0, 1)
Envelope(burstT) ==
    IF burstT <= 4000 THEN 0
    ELSE IF burstT >= ONE THEN ONE
    ELSE ((burstT - 4000) * ONE) \div 6000

\* The alpha of an edge of the last draw, from the distance of its ends,
\* its boost and the envelope.
EnvelopedAlpha(e, burstT) ==
    LET dist == Hypot(e.from[1] - e.to[1], e.from[2] - e.to[2])
        proximity == ONE - (dist * ONE) \div connectionDistance
        base == 600 + (proximity * 28) \div 100
    IN Min((((base * Envelope(burstT)) \div ONE) * e.boost) \div ONE, 7000)

\* C17: a draw with progress <= 0.4 strokes no edge; a draw with progress
\* > 0 fills every node with alpha > 0, so a canvas that shows an edge shows
\* every node; and every edge's alpha is its base opacity times
\* clamp((progress - 0.4) / 0.6, 0, 1) times its boost, capped.
C17_NodesAheadOfEdges ==
    pnTick.kind = "active" =>
       /\ pnTick.burstT <= 4000 => pnCtx.edges = << >>
       /\ pnTick.burstT > 0 =>
             \A k \in DOMAIN pnCtx.nodes : pnCtx.nodes[k].alpha > 0
       /\ pnCtx.edges # << >> =>
             \A k \in DOMAIN pnCtx.nodes : pnCtx.nodes[k].alpha > 0
       /\ \A k \in DOMAIN pnCtx.edges :
             pnCtx.edges[k].alpha = EnvelopedAlpha(pnCtx.edges[k], pnTick.burstT)

\* A draw at progress 0.05 of a layout with a close pair: every node shows
\* and no edge does.
C17_Witness ==
    /\ pnTick.kind = "active" /\ pnTick.burstT = 500
    /\ ClosePairs(pn.particles) # {}
    /\ pnCtx.edges = << >>
    /\ \A k \in DOMAIN pnCtx.nodes : pnCtx.nodes[k].alpha > 0

\* C18: every edge of a draw has an alpha of at most 0.7 and a pointer
\* boost within [1, 3.5].
C18_EdgeAlphaCapped ==
    \A k \in DOMAIN pnCtx.edges :
       /\ pnCtx.edges[k].alpha <= 7000
       /\ pnCtx.edges[k].boost >= ONE
       /\ pnCtx.edges[k].boost <= 35000

\* A draw with the pointer on the middle of an edge between two particles
\* in one place: the boost is 3.5 and the alpha, 0.34 * 3.5 before the
\* ceiling, is held at 0.7.
C18_Witness ==
    /\ pnTick.kind = "active" /\ pnTick.burstT = ONE
    /\ \E k \in DOMAIN pnCtx.edges :
          /\ pnCtx.edges[k].boost = 35000
          /\ pnCtx.edges[k].alpha = 7000
          /\ pnCtx.edges[k].from = pnCtx.edges[k].to

\* C19: in a frame with global burst progress < 1 every particle is at
\* center + (target - center) * eased local progress, with the pointer
\* present or absent; its drift angle is as before.
C19_NoRepulsionInBurst ==
    [][(ActiveTick /\ pnTick'.burstT < ONE) =>
          \A i \in DOMAIN pn'.particles :
             LET p == pn'.particles[i]
                 cx == CenterX(pn'.canvas)
                 cy == CenterY(pn'.canvas)
                 eased == Eased(p, pnTick'.burstT)
             IN /\ p.x = cx + ((p.tx - cx) * eased) \div ONE
                /\ p.y = cy + ((p.ty - cy) * eased) \div ONE
                /\ p.driftAngle = pn.particles[i].driftAngle
                /\ pnCtx'.nodes[i].x = p.x /\ pnCtx'.nodes[i].y = p.y]_vars

\* A burst frame has run with the pointer on the canvas within mouse.radius
\* of a particle that has left the center.
C19_Witness ==
    /\ pnTick.kind = "active" /\ pnTick.burstT > 0 /\ pnTick.burstT < ONE
    /\ pn.mouse.x # Null
    /\ \E i \in DOMAIN pn.particles :
          /\ ~AtCenter(pn, i)
          /\ Hypot(pn.particles[i].x - Val(pn.mouse.x),
                   pn.particles[i].y - Val(pn.mouse.y)) < mouseRadius
          /\ Repulsion(pn.particles[i].x, pn.particles[i].y, pn.mouse) # << 0, 0 >>

\* A step of the resize listener that changes the field or its canvas (no
\* frame runs and the splash stays).
ResizeStep ==
    /\ now' = now /\ splash' = splash
    /\ \/ pn'.canvas # pn.canvas
       \/ pn'.particles # pn.particles
       \/ pn'.startTime # pn.startTime
       \/ pnCtx' # pnCtx

\* The field as a resize leaves it: the canvas has the window's size and
\* is blank, the particles are as createParticles generates them for that
\* canvas (at its center, without origin), and the burst clock is null.
Regenerated(o, ctx, win) ==
    /\ o.canvas = PNResizeCanvas(win)
    /\ ctx = BlankCtx
    /\ o.startTime = Null
    /\ \E draws \in DrawSequences : o.particles = createParticles(o.canvas, draws)
    /\ \A i \in DOMAIN o.particles :
          /\ o.particles[i].x = CenterX(o.canvas)
          /\ o.particles[i].y = CenterY(o.canvas)
          /\ o.particles[i].ox = Null /\ o.particles[i].oy = Null

\* C20: a resize in any phase, also right after another resize, leaves the
\* field regenerated; the pointer, the trigger flag, the visibility and the
\* pending frame are as before.
C20_ResizeRegenerates ==
    [][ResizeStep =>
          /\ Regenerated(pn', pnCtx', window')
          /\ pn'.mouse = pn.mouse
          /\ pn'.burstReady = pn.burstReady
          /\ pn'.isVisible = pn.isVisible
          /\ pn'.animationId = pn.animationId
          /\ pnFrames' = pnFrames]_vars

\* A resize has regenerated a field whose burst was done: the last frame
\* ran at progress 1, and now no particle has an origin and the clock is
\* null.
C20_Witness ==
    /\ pnTick.kind = "active" /\ pnTick.burstT = ONE
    /\ pn.burstReady
    /\ Regenerated(pn, pnCtx, window)


\* C21: the host calls startBurst at most once per page load, and never
\* before the particle field is constructed.  On a page with the particle
\* canvas: with an intro splash and no reduced motion the call is made by
\* the step that ends the splash's fade-out transition and by no other, so
\* it has been made exactly when the splash is gone; without a splash or
\* with reduced motion it is made by the DOMContentLoaded handler itself,
\* so it has been made once as soon as the page is loaded.
C21_StartBurstOnce ==
    /\ [](/\ startBursts <= 1
          /\ startBursts > 0 => doc.loaded /\ doc.particleCanvas /\ pn.particles # << >>
          /\ doc.particleCanvas /\ doc.splash /\ ~doc.reducedMotion =>
                (startBursts = 1 <=> splash = "gone")
          /\ doc.particleCanvas /\ ~(doc.splash /\ ~doc.reducedMotion) =>
                (startBursts = 1 <=> doc.loaded))
    /\ [][startBursts' # startBursts =>
            /\ startBursts' = startBursts + 1
            /\ pn'.burstReady /\ pn'.startTime = Null
            /\ IF doc.splash /\ ~doc.reducedMotion
               THEN splash = "fading" /\ splash' = "gone"
               ELSE ~doc.loaded /\ doc'.loaded]_vars
\* A splash page whose fade-out has ended and fired the one burst, and a
\* frame of that burst has been drawn.
C21_Witness ==
    /\ doc.particleCanvas /\ doc.splash /\ ~doc.reducedMotion
    /\ splash = "gone"
    /\ startBursts = 1
    /\ pnTick.kind = "active"

\* The dot grid's pointer is absent: the target is the off-canvas
\* coordinate (set by the constructor and by mouseleave).
PointerAbsent == dg.target = [x |-> OffCanvas, y |-> OffCanvas]
\* Every dot on the canvas ctx has the base opacity, color and radius.
AllDotsBase(ctx) ==
    \A rc \in DOMAIN ctx :
       /\ ctx[rc].opacity = baseOpacity
       /\ ctx[rc].color = baseColor
       /\ ctx[rc].radius = dotRadius

\* C22: every frame drawn while the dot grid's pointer is absent paints
\* every dot with the base opacity, the base color and the base radius.
C22_AbsentPointerRevealsNothing ==
    [][(PointerAbsent /\ dg'.target = dg.target /\ dgCtx' # dgCtx) =>
          AllDotsBase(dgCtx')]_vars

\* C23: in every behaviour in which, from some point on, the pointer stays
\* absent and the dot grid stays visible, from some point on every dot on
\* the canvas is at the base opacity, color and radius.
C23_LeaveEventuallyAllBase ==
    <>[](PointerAbsent /\ dg.isVisible) => <>[]AllDotsBase(dgCtx)
\* The pointer has left a canvas with revealed dots, the grid is visible,
\* the smoothed pointer has gone all the way to the off-canvas coordinate
\* and the frame on the canvas has every dot at its base.
C23_Witness ==
    /\ PointerAbsent /\ dg.isVisible
    /\ dgPointerEvents > 1
    /\ dg.mouse = dg.target
    /\ dgCtx # << >> /\ AllDotsBase(dgCtx)

\* C24: an active frame sets the burst clock to its own timestamp if the
\* clock is null (after the trigger or a resize) and leaves it as it is
\* otherwise, whatever the timestamp (0 included), and the progress it
\* reports is min((timestamp - startTime) / burstDuration, 1).
C24_StartCapturedOnce ==
    [][ActiveTick =>
          /\ pn'.startTime = IF pn.startTime = Null THEN Some(now') ELSE pn.startTime
          /\ pnTick'.burstT =
                Min(((now' - Val(pn'.startTime)) * ONE) \div burstDuration, ONE)]_vars

\* C25: whenever a filter has been clicked and no timer and no frame
\* callback of the project filters is pending, a card is displayed
\* (display is not 'none') if and only if it matches the filter clicked
\* last.
C25_SettledDisplayMatchesFilter ==
    LET o == projectFilters
    IN (/\ o.active # Null
        /\ \A i \in DOMAIN o.projects : o.timers[i] = 0 /\ o.frames[i] = 0)
       => \A i \in DOMAIN o.projects :
             (o.projects[i].display # "none") <=> Shown(Val(o.active), o.projects[i])

=============================================================================
